---- MODULE Spec2Model ----
(***************************************************************************)
(* Survey2Earn backend: the response lifecycle (start, submit answers,     *)
(* update answer, complete, abandon) and the reward settlement that a      *)
(* completion triggers, as implemented by responseService and the models   *)
(* it drives.  Each service call is a sequence of repository calls; every  *)
(* repository call is one atomic step, so concurrent requests interleave   *)
(* between their reads and writes exactly as the handlers' goroutines do.  *)
(*                                                                         *)
(* Amounts and quality scores are float64 in the source.  They are kept    *)
(* here as exact fixed-point integers: one token (and a score of 1.0) is   *)
(* ScoreScale units.                                                       *)
(***************************************************************************)
EXTENDS Integers, Sequences, FiniteSets, TLC

VARIABLES surveys, responses, answers, pools, transactions, users, procs,
          served, scoreIn, scoreOut, valIn, valOut, now, balance

vars == <<surveys, responses, answers, pools, transactions, users, procs,
          served, scoreIn, scoreOut, valIn, valOut, now, balance>>

dbVars == <<surveys, responses, answers, pools, transactions, users>>

(***************************************************************************)
(* Bounds and input sets                                                   *)
(***************************************************************************)
MaxResponseRows == 2
MaxCalls == 4
MaxScoreQuestions == 11

Procs == {1, 2}
UserIds == {1, 2}
SurveyIds == {1}
CreatorID == 1
Durations == {20}
ElapsedTimes == {20}
RewardAmounts == {1}
EstimatedTimes == {3}
AllowMultipleSet == {FALSE}

Nil == -1

\* one token, and a quality score of 1.0, in fixed-point units
ScoreScale == 100

(***************************************************************************)
(* models.Survey and models.Question                                       *)
(***************************************************************************)
\* the questions a creator gave the survey: one required free-text question
\* without length bounds
InitialQuestions ==
    << [ID |-> 1, Type |-> "text", Required |-> TRUE,
        MinLength |-> Nil, MaxLength |-> Nil,
        MinValue |-> Nil, MaxValue |-> Nil] >>

\* surveyService.CreateSurvey: the draft row it stores
CreateSurvey(rewardAmount, maxParticipants, estimatedMinutes, allowMultiple) ==
    [CreatorID         |-> CreatorID,
     Status            |-> "draft",
     MaxResponses      |-> maxParticipants,
     RewardPerResponse |-> rewardAmount * ScoreScale,
     TotalRewardPool   |-> rewardAmount * ScoreScale * maxParticipants,
     EstimatedDuration |-> estimatedMinutes,
     RequireLogin      |-> TRUE,
     AllowMultiple     |-> allowMultiple,
     ResponseCount     |-> 0,
     StartDate         |-> Nil,
     EndDate           |-> Nil,
     DeletedAt         |-> FALSE,
     Questions         |-> InitialQuestions]

\* the zero value of a handler's survey variable
NullSurvey == [CreateSurvey(0, 0, 0, FALSE) EXCEPT !.CreatorID = 0, !.Status = "none",
                                                   !.Questions = <<>>]

IsActive_NoEndDate(s) ==
    /\ s.Status = "published"
    /\ ~(s.StartDate # Nil /\ now < s.StartDate)
    /\ ~(s.ResponseCount >= s.MaxResponses)

\* Survey.IsActive at the time now; a date the creator left unset is Nil
IsActive(s) ==
    /\ s.Status = "published"
    /\ ~(s.StartDate # Nil /\ now < s.StartDate)
    /\ ~(s.EndDate # Nil /\ now > s.EndDate)
    /\ ~(s.ResponseCount >= s.MaxResponses)

\* Survey.GetQuestionByID: the set of matching questions (empty = not found)
GetQuestionByID(s, questionID) ==
    {s.Questions[i] : i \in {j \in DOMAIN s.Questions : s.Questions[j].ID = questionID}}

(***************************************************************************)
(* models.User: the numeric columns of a user's row                        *)
(***************************************************************************)
NewUser == [TotalEarned |-> 0, ReputationScore |-> 0, TotalResponses |-> 0]

(***************************************************************************)
(* models.RewardTransaction and models.UserBalance                         *)
(***************************************************************************)
\* RewardTransaction.MarkAsCompleted: hash, block and time are not modelled
RewardTransaction_MarkAsCompleted(rt) == [rt EXCEPT !.Status = "completed"]

MarkAsFailed_KeepsCount(rt) == [rt EXCEPT !.Status = "failed"]

\* RewardTransaction.MarkAsFailed
MarkAsFailed(rt) == [rt EXCEPT !.Status = "failed", !.RetryCount = rt.RetryCount + 1]

\* RewardTransaction.CanRetry
CanRetry(rt) == rt.Status = "failed" /\ rt.RetryCount < 3

\* the row of a user without earnings, with an amount held back as pending
NewUserBalance(pending) ==
    [TotalEarned |-> 0, TotalWithdrawn |-> 0, AvailableBalance |-> 0,
     PendingBalance |-> pending, updates |-> 0]

UserBalance_UpdateBalance_NoPending(ub, earnedAmount, withdrawnAmount) ==
    LET earned    == ub.TotalEarned + earnedAmount
        withdrawn == ub.TotalWithdrawn + withdrawnAmount
    IN  [ub EXCEPT !.TotalEarned = earned,
                   !.TotalWithdrawn = withdrawn,
                   !.AvailableBalance = earned - withdrawn,
                   !.updates = ub.updates + 1]

\* UserBalance.UpdateBalance; updates counts the calls
UserBalance_UpdateBalance(ub, earnedAmount, withdrawnAmount) ==
    LET earned    == ub.TotalEarned + earnedAmount
        withdrawn == ub.TotalWithdrawn + withdrawnAmount
    IN  [ub EXCEPT !.TotalEarned = earned,
                   !.TotalWithdrawn = withdrawn,
                   !.AvailableBalance = earned - withdrawn - ub.PendingBalance,
                   !.updates = ub.updates + 1]

\* UserBalance.CanWithdraw
CanWithdraw(ub, amount) == ub.AvailableBalance >= amount /\ amount > 0

(***************************************************************************)
(* models.RewardPool                                                       *)
(***************************************************************************)
IsAvailable(rp) ==
    rp.IsActive /\ rp.RemainingAmount > 0 /\ rp.CurrentResponses < rp.MaxResponses

CanProcessReward_Unchecked(rp) == TRUE

CanProcessReward(rp) ==
    IsAvailable(rp) /\ rp.RemainingAmount >= rp.RewardPerResponse

RewardPool_ProcessReward_NoPaidOut(rp) ==
    LET cur == rp.CurrentResponses + 1
        rem == rp.RemainingAmount - rp.RewardPerResponse
    IN  [rp EXCEPT !.CurrentResponses = cur,
                   !.RemainingAmount = rem,
                   !.IsActive = IF cur >= rp.MaxResponses \/ rem < rp.RewardPerResponse
                                THEN FALSE ELSE rp.IsActive]

RewardPool_ProcessReward_StaysActive(rp) ==
    [rp EXCEPT !.CurrentResponses = rp.CurrentResponses + 1,
               !.PaidOut = rp.PaidOut + rp.RewardPerResponse,
               !.RemainingAmount = rp.RemainingAmount - rp.RewardPerResponse]

RewardPool_ProcessReward_NoCount(rp) ==
    LET paid == rp.PaidOut + rp.RewardPerResponse
        rem  == rp.RemainingAmount - rp.RewardPerResponse
    IN  [rp EXCEPT !.PaidOut = paid,
                   !.RemainingAmount = rem,
                   !.IsActive = IF rem < rp.RewardPerResponse THEN FALSE ELSE rp.IsActive]

\* RewardPool.ProcessReward, applied when CanProcessReward holds
RewardPool_ProcessReward(rp) ==
    LET cur  == rp.CurrentResponses + 1
        paid == rp.PaidOut + rp.RewardPerResponse
        rem  == rp.RemainingAmount - rp.RewardPerResponse
    IN  [rp EXCEPT !.CurrentResponses = cur,
                   !.PaidOut = paid,
                   !.RemainingAmount = rem,
                   !.IsActive = IF cur >= rp.MaxResponses \/ rem < rp.RewardPerResponse
                                THEN FALSE ELSE rp.IsActive]

(***************************************************************************)
(* models.Response and models.Answer                                       *)
(***************************************************************************)
\* CompletedAt is TRUE when the pointer is set
NullResponse ==
    [SurveyID |-> 0, UserID |-> 0, Status |-> "none", CompletedAt |-> FALSE,
     Duration |-> 0, QualityScore |-> 0, IsValid |-> FALSE]

MarkAsCompleted(r) == [r EXCEPT !.Status = "completed", !.CompletedAt = TRUE]

\* Response.IsCompleted: CompletedAt is TRUE when the pointer is set
IsCompleted(r) == r.Status = "completed" /\ r.CompletedAt

MarkAsAbandoned_SetsCompletedAt(r, elapsed) ==
    [r EXCEPT !.Status = "abandoned", !.CompletedAt = TRUE, !.Duration = elapsed]

\* the elapsed wall-clock time is an input of the step (elapsed)
MarkAsAbandoned(r, elapsed) == [r EXCEPT !.Status = "abandoned", !.Duration = elapsed]

\* AnswerValue.Content is an interface{}: a JSON string, number or boolean,
\* or null
StringContent(str) == [k |-> "string", v |-> str]
NumberContent(n) == [k |-> "number", v |-> n]
BoolContent(b) == [k |-> "bool", v |-> b]
NullContent == [k |-> "null", v |-> 0]

\* models.AnswerValue; a nil Rating, Scale or Date is Nil, a Date is the day
\* of January 2006 it falls on
TextValue(str) ==
    [Type |-> "text", Content |-> StringContent(str), Options |-> <<>>,
     Rating |-> Nil, Scale |-> Nil, Date |-> Nil]

RECURSIVE Join(_, _)
\* strings.Join
Join(strs, sep) ==
    IF Len(strs) = 0 THEN ""
    ELSE IF Len(strs) = 1 THEN strs[1]
    ELSE strs[1] \o sep \o Join(Tail(strs), sep)

\* fmt.Sprintf("%.2f", num) for a whole number
FormatFloat2(n) == ToString(n) \o ".00"

\* time.Time.Format("2006-01-02")
FormatDate(day) == "2006-01-" \o (IF day < 10 THEN "0" ELSE "") \o ToString(day)

extractAnswerText_TextOnly(answerValue) ==
    IF answerValue.Type = "text" /\ answerValue.Content.k = "string"
    THEN answerValue.Content.v ELSE ""

\* responseService.extractAnswerText
extractAnswerText(answerValue) ==
    CASE answerValue.Type = "text" ->
            IF answerValue.Content.k = "string" THEN answerValue.Content.v ELSE ""
      [] answerValue.Type = "number" ->
            IF answerValue.Content.k = "number"
            THEN FormatFloat2(answerValue.Content.v) ELSE ""
      [] answerValue.Type = "boolean" ->
            IF answerValue.Content.k = "bool"
            THEN (IF answerValue.Content.v THEN "true" ELSE "false") ELSE ""
      [] answerValue.Type = "array" ->
            IF Len(answerValue.Options) > 0 THEN Join(answerValue.Options, ", ") ELSE ""
      [] answerValue.Type = "rating" ->
            IF answerValue.Rating # Nil THEN ToString(answerValue.Rating) ELSE ""
      [] answerValue.Type = "scale" ->
            IF answerValue.Scale # Nil THEN ToString(answerValue.Scale) ELSE ""
      [] answerValue.Type = "date" ->
            IF answerValue.Date # Nil THEN FormatDate(answerValue.Date) ELSE ""
      [] OTHER -> ""

\* len(a.AnswerText)
TextLen(t) == Len(t)

\* Answer.ValidateAnswer: "ok" or the error message
ValidateAnswer(a, question) ==
    IF question.Required /\ (a.IsSkipped \/ a.AnswerText = "")
    THEN "answer is required"
    ELSE IF question.Type \in {"text", "textarea"}
    THEN IF question.MinLength # Nil /\ TextLen(a.AnswerText) < question.MinLength
         THEN "answer too short"
         ELSE IF question.MaxLength # Nil /\ TextLen(a.AnswerText) > question.MaxLength
         THEN "answer too long"
         ELSE "ok"
    ELSE IF question.Type \in {"rating", "scale"}
    THEN IF a.AnswerValue.Rating # Nil
         THEN IF question.MinValue # Nil /\ a.AnswerValue.Rating < question.MinValue
              THEN "rating below minimum"
              ELSE IF question.MaxValue # Nil /\ a.AnswerValue.Rating > question.MaxValue
              THEN "rating above maximum"
              ELSE "ok"
         ELSE "ok"
    ELSE "ok"

\* the answer row built from one dto.SubmitAnswerRequest / UpdateAnswerRequest
MkAnswer(responseID, questionID, req) ==
    [ResponseID  |-> responseID,
     QuestionID  |-> questionID,
     AnswerText  |-> extractAnswerText(req.Answer),
     AnswerValue |-> req.Answer,
     IsSkipped   |-> req.IsSkipped]

\* the answers clients send: a text for question 1, question 1 skipped, and
\* a text for question 2, which is no question of the survey
AnswerReqs ==
    { [QuestionID |-> 1, Answer |-> TextValue("a"), IsSkipped |-> FALSE],
      [QuestionID |-> 1, Answer |-> TextValue(""),  IsSkipped |-> TRUE],
      [QuestionID |-> 2, Answer |-> TextValue("a"), IsSkipped |-> FALSE] }

(***************************************************************************)
(* responseService.calculateQualityScore                                   *)
(*                                                                         *)
(* The float64 score is kept as the exact fraction num / den with          *)
(* den = 100 * questionsTotal.                                             *)
(***************************************************************************)
\* number of answers that are skipped and whose question is required
SkippedRequired(respAnswers, questions) ==
    Cardinality({a \in respAnswers :
        a.IsSkipped /\ \E i \in DOMAIN questions :
            questions[i].ID = a.QuestionID /\ questions[i].Required})

Clamp_UpperOnly(num, den) == IF num > 5 * den THEN 5 * den ELSE num

\* lines 476-481
Clamp(num, den) == IF num < 0 THEN 0 ELSE IF num > 5 * den THEN 5 * den ELSE num

\* float64(duration) / float64(questionsAnswered) < 5; a division by zero
\* gives +Inf or NaN, and neither compares below 5
TooFast(duration, questionsAnswered) ==
    questionsAnswered # 0 /\ duration < 5 * questionsAnswered

RECURSIVE Pow(_, _)
Pow(b, k) == IF k = 0 THEN 1 ELSE b * Pow(b, k - 1)

calculateQualityScore_Compounded(respAnswers, duration, questions) ==
    LET questionsTotal    == Len(questions)
        questionsAnswered == Cardinality(respAnswers)
        pace              == IF TooFast(duration, questionsAnswered) THEN 7 ELSE 10
        skippedRequired   == SkippedRequired(respAnswers, questions)
        den               == 10 * Pow(10, skippedRequired) * questionsTotal
    IN  [num |-> Clamp(5 * questionsAnswered * pace * Pow(9, skippedRequired), den),
         den |-> den]

\* lines 440-484: the score as the fraction num / den
calculateQualityScore(respAnswers, duration, questions) ==
    LET questionsTotal    == Len(questions)
        questionsAnswered == Cardinality(respAnswers)
        pace              == IF TooFast(duration, questionsAnswered) THEN 7 ELSE 10
        skippedRequired   == SkippedRequired(respAnswers, questions)
        skipFactor        == IF skippedRequired > 0 THEN 10 - skippedRequired ELSE 10
        den               == 100 * questionsTotal
    IN  [num |-> Clamp(5 * questionsAnswered * pace * skipFactor, den),
         den |-> den]

\* the score as a fixed-point number of ScoreScale units
ToFixed(score) == (score.num * ScoreScale) \div score.den

\* processRewards lines 498-504: the quality-scaled reward and the XP
FinalReward(baseReward, qualityScore) == (baseReward * qualityScore) \div (5 * ScoreScale)

XpEarned(estimatedDuration, qualityScore) ==
    (estimatedDuration * 10 * qualityScore) \div (5 * ScoreScale)

(***************************************************************************)
(* Repositories                                                            *)
(***************************************************************************)
\* ResponseRepository.GetByID: the row, or NullResponse when there is none
GetByID(id) == IF id \in DOMAIN responses THEN responses[id] ELSE NullResponse

\* the Answers collection of the response aggregate
AnswersOf(id) == {a \in answers : a.ResponseID = id}

UpsertAnswer_AlwaysInsert(rows, a) == rows \cup {a}

\* ResponseRepository.UpsertAnswer: one row per (response id, question id)
UpsertAnswer(rows, a) ==
    {x \in rows : ~(x.ResponseID = a.ResponseID /\ x.QuestionID = a.QuestionID)}
        \cup {a}

\* ResponseRepository.Create: a new row; its id is its position
responseRepo_Create(rows, row) == Append(rows, row)

\* ResponseRepository.Update: saves the row it is given
responseRepo_Update(rows, id, row) == [rows EXCEPT ![id] = row]

\* ResponseRepository.HasUserResponded
HasUserResponded(userID, surveyID) ==
    \E i \in DOMAIN responses :
        responses[i].UserID = userID /\ responses[i].SurveyID = surveyID

\* RewardRepository.GetPoolBySurveyID: the pool ids of the survey
GetPoolBySurveyID(surveyID) ==
    {i \in DOMAIN pools : pools[i].SurveyID = surveyID}

(***************************************************************************)
(* responseService.generateNFTCertificate                                  *)
(***************************************************************************)
\* the nil *string of a reply without certificate
NoCert == ""

generateNFTCertificate_NoResponseID(surveyID, userID, responseID) ==
    "NFT-CERT-" \o ToString(surveyID) \o "-" \o ToString(userID)

\* fmt.Sprintf("NFT-CERT-%d-%d-%d", survey.ID, response.UserID, response.ID)
generateNFTCertificate(surveyID, userID, responseID) ==
    "NFT-CERT-" \o ToString(surveyID) \o "-" \o ToString(userID)
                \o "-" \o ToString(responseID)

(***************************************************************************)
(* Request slots                                                           *)
(***************************************************************************)
IdleProc ==
    [pc |-> "idle", op |-> "none", user |-> 0, rid |-> 0, sid |-> 0,
     batch |-> <<>>, duration |-> 0, response |-> NullResponse,
     snapshot |-> {}, pool |-> 0, reward |-> 0, xp |-> 0, stored |-> 0,
     cert |-> NoCert, survey |-> NullSurvey, replace |-> FALSE, timeLeft |-> Nil,
     result |-> "none"]

\* a new request takes the lowest free slot (a slot whose handler has
\* returned keeps the return value until it is taken again)
FreeSlot(p) ==
    /\ procs[p].pc \in {"idle", "done"}
    /\ \A q \in Procs : q < p => procs[q].pc \notin {"idle", "done"}

\* served counts the requests accepted so far
Accept(p) ==
    /\ FreeSlot(p)
    /\ served < MaxCalls
    /\ served' = served + 1

\* a finished call: what the handler still holds is its caller, its target
\* and the service's return value (the error or "ok", and the reward, xp and
\* certificate of the reply); stored is the number of UpsertAnswer calls it
\* made
Done(call, res) ==
    [IdleProc EXCEPT !.pc = "done", !.op = call.op, !.user = call.user,
                     !.rid = call.rid, !.sid = call.sid, !.stored = call.stored,
                     !.reward = IF res = "ok" THEN call.reward ELSE 0,
                     !.xp = IF res = "ok" THEN call.xp ELSE 0,
                     !.cert = IF res = "ok" THEN call.cert ELSE NoCert,
                     !.timeLeft = IF res = "ok" THEN call.timeLeft ELSE Nil,
                     !.result = res]

Finish(p, res) == [procs EXCEPT ![p] = Done(procs[p], res)]

(***************************************************************************)
(* Initial state: a draft survey exists, nobody has responded              *)
(***************************************************************************)
InitWith(maxParticipantsSet) ==
    /\ \E ra \in RewardAmounts, mp \in maxParticipantsSet, et \in EstimatedTimes,
          am \in AllowMultipleSet :
          surveys = [s \in SurveyIds |-> CreateSurvey(ra, mp, et, am)]
    /\ responses = <<>>
    /\ answers = {}
    /\ pools = <<>>
    /\ transactions = <<>>
    /\ users = [u \in UserIds |-> NewUser]
    /\ procs = [p \in Procs |-> IdleProc]
    /\ served = 0
    /\ scoreIn = <<>>
    /\ scoreOut = <<>>
    /\ valIn = <<>>
    /\ valOut = "none"
    /\ now = 0
    /\ balance = NewUserBalance(0)

(***************************************************************************)
(* surveyService.PublishSurvey                                             *)
(***************************************************************************)
PublishSurveyChecks_NoDraftCheck(survey, userID) ==
    IF survey.DeletedAt THEN "record not found"
    ELSE IF survey.CreatorID # userID THEN "unauthorized"
    ELSE IF Len(survey.Questions) = 0 THEN "survey must have at least one question"
    ELSE "ok"

\* lines 252-271: the checks on the survey just loaded, "ok" or the error
PublishSurveyChecks(survey, userID) ==
    IF survey.DeletedAt THEN "record not found"
    ELSE IF survey.CreatorID # userID THEN "unauthorized"
    ELSE IF survey.Status # "draft" THEN "only draft surveys can be published"
    ELSE IF Len(survey.Questions) = 0 THEN "survey must have at least one question"
    ELSE "ok"

\* lines 282-290: the pool row built from the loaded survey; the columns the
\* handler does not set take their defaults, 0
NewRewardPool(sid, survey) ==
    [SurveyID          |-> sid,
     TotalAmount       |-> survey.TotalRewardPool,
     RewardPerResponse |-> survey.RewardPerResponse,
     MaxResponses      |-> survey.MaxResponses,
     CurrentResponses  |-> 0,
     PaidOut           |-> 0,
     RemainingAmount   |-> survey.TotalRewardPool,
     IsActive          |-> TRUE]

\* the handler run without a step of another request between its load and
\* its transaction: load, check, and surveyRepository.PublishWithRewardPool;
\* reward_pools.survey_id is unique, so the insert needs a survey without pool
PublishSurvey(userID, sid) ==
    LET survey == surveys[sid] IN
    /\ PublishSurveyChecks(survey, userID) = "ok"
    /\ GetPoolBySurveyID(sid) = {}
    /\ surveys' = [surveys EXCEPT ![sid].Status = "published"]
    /\ pools' = Append(pools, NewRewardPool(sid, survey))
    /\ UNCHANGED <<responses, answers, transactions, users, procs, served, scoreIn, scoreOut, valIn, valOut, now, balance>>

(***************************************************************************)
(* responseService.StartSurvey                                             *)
(***************************************************************************)
StartSurveyChecks_NoDuplicateCheck(survey, userID, sid) ==
    IF ~IsActive(survey) THEN "survey is not active"
    ELSE IF survey.RequireLogin /\ userID = 0 THEN "login required to participate"
    ELSE IF survey.ResponseCount >= survey.MaxResponses
    THEN "survey has reached maximum participants"
    ELSE "ok"

\* lines 51-75: the checks on the survey just loaded, "ok" or the error
StartSurveyChecks(survey, userID, sid) ==
    IF ~IsActive(survey) THEN "survey is not active"
    ELSE IF survey.RequireLogin /\ userID = 0 THEN "login required to participate"
    ELSE IF ~survey.AllowMultiple /\ HasUserResponded(userID, sid)
    THEN "user has already responded to this survey"
    ELSE IF survey.ResponseCount >= survey.MaxResponses
    THEN "survey has reached maximum participants"
    ELSE "ok"

\* lines 44-75: load the survey and run the checks
StartSurvey_Check(p, userID, sid) ==
    LET survey == surveys[sid] IN
    /\ Accept(p)
    /\ Len(responses) < MaxResponseRows
    /\ LET call == [IdleProc EXCEPT !.op = "StartSurvey", !.user = userID, !.sid = sid]
           chk  == StartSurveyChecks(survey, userID, sid)
       IN procs' = [procs EXCEPT ![p] =
            IF chk # "ok" THEN Done(call, chk)
            ELSE [call EXCEPT !.survey = survey, !.pc = "start_create"]]
    /\ UNCHANGED <<dbVars, scoreIn, scoreOut, valIn, valOut, now, balance>>

TimeLeft_Minutes(survey) ==
    IF survey.EstimatedDuration > 0 THEN survey.EstimatedDuration ELSE Nil

\* lines 94-99: the optional time left, in seconds
TimeLeft(survey) ==
    IF survey.EstimatedDuration > 0 THEN survey.EstimatedDuration * 60 ELSE Nil

\* lines 77-108: responseRepo.Create and the reply
StartSurvey_Create(p) ==
    /\ procs[p].pc = "start_create"
    /\ responses' = responseRepo_Create(responses,
                      [SurveyID |-> procs[p].sid, UserID |-> procs[p].user,
                       Status |-> "started", CompletedAt |-> FALSE,
                       Duration |-> 0, QualityScore |-> 0, IsValid |-> TRUE])
    /\ procs' = [procs EXCEPT ![p] =
                    Done([procs[p] EXCEPT !.rid = Len(responses) + 1,
                                          !.timeLeft = TimeLeft(procs[p].survey)],
                         "ok")]
    /\ UNCHANGED <<surveys, answers, pools, transactions, users, served, scoreIn, scoreOut, valIn, valOut, now, balance>>

(***************************************************************************)
(* responseService.SubmitAnswers                                           *)
(***************************************************************************)
CheckActive_NoStatusCheck(response, userID) ==
    IF response.Status = "none" THEN "record not found"
    ELSE IF response.UserID # userID THEN "unauthorized"
    ELSE "ok"

CheckActive_StatusFirst(response, userID) ==
    IF response.Status = "none" THEN "record not found"
    ELSE IF response.Status # "started" THEN "response is not active"
    ELSE IF response.UserID # userID THEN "unauthorized"
    ELSE "ok"

\* the checks of lines 117-125 on a response row just read
CheckActive(response, userID) ==
    IF response.Status = "none" THEN "record not found"
    ELSE IF response.UserID # userID THEN "unauthorized"
    ELSE IF response.Status # "started" THEN "response is not active"
    ELSE "ok"

\* where a call goes once its batch is exhausted: SubmitAnswers returns nil,
\* CompleteSurvey goes on to line 199
AfterBatch(call) ==
    IF call.op = "CompleteSurvey" THEN [call EXCEPT !.pc = "complete_update"]
    ELSE Done(call, "ok")

AfterReject_GoesOn(call, err) ==
    IF call.op = "CompleteSurvey" THEN [call EXCEPT !.pc = "complete_update"]
    ELSE Done(call, err)

\* where a call goes when an answer of its batch fails validation:
\* SubmitAnswers returns the error (lines 161-163) and CompleteSurvey returns
\* it in turn (lines 194-196)
AfterReject(call, err) == Done(call, err)

\* lines 110-131: load the response, check owner and status, load the survey
SubmitAnswers_GetByID(p, userID, rid, batch) ==
    /\ Accept(p)
    /\ LET call == [IdleProc EXCEPT !.op = "SubmitAnswers", !.user = userID,
                                    !.rid = rid, !.batch = batch]
           chk  == CheckActive(GetByID(rid), userID)
       IN procs' = [procs EXCEPT ![p] =
            IF chk # "ok" THEN Done(call, chk)
            ELSE IF batch = <<>> THEN AfterBatch(call)
            ELSE [call EXCEPT !.pc = "submit_loop"]]
    /\ UNCHANGED <<dbVars, scoreIn, scoreOut, valIn, valOut, now, balance>>

\* lines 133-170: one iteration of the loop over the batch
SubmitAnswers_Loop(p) ==
    LET call      == procs[p]
        answerReq == Head(call.batch)
        survey    == surveys[GetByID(call.rid).SurveyID]
        found     == GetQuestionByID(survey, answerReq.QuestionID)
        answer    == MkAnswer(call.rid, answerReq.QuestionID, answerReq)
        rest      == [call EXCEPT !.batch = Tail(call.batch)]
        saved     == [rest EXCEPT !.stored = @ + 1]
        Continue(c) == IF c.batch = <<>> THEN AfterBatch(c) ELSE c
    IN
    /\ call.pc = "submit_loop"
    /\ IF found = {}
       THEN \* skip invalid questions
            /\ procs' = [procs EXCEPT ![p] = Continue(rest)]
            /\ UNCHANGED answers
       ELSE LET question == CHOOSE q \in found : TRUE
                err      == ValidateAnswer(answer, question)
            IN IF err # "ok"
               THEN /\ procs' = [procs EXCEPT ![p] = AfterReject(call, err)]
                    /\ UNCHANGED answers
               ELSE /\ answers' = UpsertAnswer(answers, answer)
                    /\ procs' = [procs EXCEPT ![p] = Continue(saved)]
    /\ UNCHANGED <<surveys, responses, pools, transactions, users, served, scoreIn, scoreOut, valIn, valOut, now, balance>>

(***************************************************************************)
(* responseService.UpdateAnswer                                            *)
(***************************************************************************)
\* lines 338-353
UpdateAnswer_GetByID(p, userID, rid, questionID, req) ==
    /\ Accept(p)
    /\ req.QuestionID = questionID
    /\ LET call == [IdleProc EXCEPT !.op = "UpdateAnswer", !.user = userID,
                                    !.rid = rid, !.batch = <<req>>]
           chk  == CheckActive(GetByID(rid), userID)
       IN procs' = [procs EXCEPT ![p] =
            IF chk # "ok" THEN Done(call, chk)
            ELSE [call EXCEPT !.pc = "update_upsert"]]
    /\ UNCHANGED <<dbVars, scoreIn, scoreOut, valIn, valOut, now, balance>>

\* lines 355-375: the answer is stored without validation
UpdateAnswer_Upsert(p) ==
    LET call == procs[p]
        req  == Head(call.batch)
    IN
    /\ call.pc = "update_upsert"
    /\ answers' = UpsertAnswer(answers, MkAnswer(call.rid, req.QuestionID, req))
    /\ procs' = [procs EXCEPT ![p] = Done([call EXCEPT !.stored = 1], "ok")]
    /\ UNCHANGED <<surveys, responses, pools, transactions, users, served, scoreIn, scoreOut, valIn, valOut, now, balance>>

(***************************************************************************)
(* responseService.AbandonSurvey                                           *)
(***************************************************************************)
\* lines 378-393
AbandonSurvey_GetByID(p, userID, rid) ==
    /\ Accept(p)
    /\ LET call     == [IdleProc EXCEPT !.op = "AbandonSurvey", !.user = userID,
                                        !.rid = rid]
           response == GetByID(rid)
       IN procs' = [procs EXCEPT ![p] =
            IF response.Status = "none"
            THEN Done(call, "record not found")
            ELSE IF response.UserID # userID
            THEN Done(call, "unauthorized")
            ELSE IF response.Status # "started"
            THEN Done(call, "response cannot be abandoned")
            ELSE [call EXCEPT !.pc = "abandon_update", !.response = response]]
    /\ UNCHANGED <<dbVars, scoreIn, scoreOut, valIn, valOut, now, balance>>

\* lines 395-398: MarkAsAbandoned on the loaded row, then responseRepo.Update
AbandonSurvey_Update(p, elapsed) ==
    LET call == procs[p] IN
    /\ call.pc = "abandon_update"
    /\ responses' = responseRepo_Update(responses, call.rid,
                                         MarkAsAbandoned(call.response, elapsed))
    /\ procs' = Finish(p, "ok")
    /\ UNCHANGED <<surveys, answers, pools, transactions, users, served, scoreIn, scoreOut, valIn, valOut, now, balance>>

(***************************************************************************)
(* responseService.CompleteSurvey                                          *)
(***************************************************************************)
\* lines 175-190: load the response (with its answers), check owner and status
CompleteSurvey_GetByID(p, userID, rid, batch, duration) ==
    /\ Accept(p)
    /\ LET call     == [IdleProc EXCEPT !.op = "CompleteSurvey", !.user = userID,
                                        !.rid = rid, !.batch = batch,
                                        !.duration = duration]
           response == GetByID(rid)
           chk      == CheckActive(response, userID)
           loaded   == [call EXCEPT !.response = response, !.snapshot = AnswersOf(rid)]
       IN procs' = [procs EXCEPT ![p] =
            IF chk # "ok" THEN Done(call, chk)
            ELSE IF Len(batch) > 0 THEN [loaded EXCEPT !.pc = "complete_submit"]
            ELSE [loaded EXCEPT !.pc = "complete_update"]]
    /\ UNCHANGED <<dbVars, scoreIn, scoreOut, valIn, valOut, now, balance>>

\* lines 192-197: the final answers go through SubmitAnswers, which loads
\* and checks the response again
CompleteSurvey_SubmitAnswers(p) ==
    LET call == procs[p]
        chk  == CheckActive(GetByID(call.rid), call.user)
    IN
    /\ call.pc = "complete_submit"
    /\ procs' = IF chk # "ok" THEN Finish(p, chk)
                ELSE [procs EXCEPT ![p].pc = "submit_loop"]
    /\ UNCHANGED <<dbVars, served, scoreIn, scoreOut, valIn, valOut, now, balance>>

\* lines 199-215: MarkAsCompleted, duration and quality score on the row
\* loaded at line 177, then responseRepo.Update
CompleteSurvey_Update(p) ==
    LET call    == procs[p]
        survey  == surveys[call.response.SurveyID]
        score   == calculateQualityScore(call.snapshot, call.duration, survey.Questions)
        updated == [MarkAsCompleted(call.response) EXCEPT
                        !.Duration = call.duration,
                        !.QualityScore = ToFixed(score)]
    IN
    /\ call.pc = "complete_update"
    /\ responses' = responseRepo_Update(responses, call.rid, updated)
    /\ procs' = [procs EXCEPT ![p].pc = "complete_pool", ![p].response = updated,
                              ![p].survey = survey,
                              ![p].snapshot = {}, ![p].duration = 0,
                              ![p].stored = 0]
    /\ UNCHANGED <<surveys, answers, pools, transactions, users, served, scoreIn, scoreOut, valIn, valOut, now, balance>>

\* processRewards lines 486-504: load the pool, check it, compute the reward
\* from the survey loaded at line 200
processRewards_GetPool(p) ==
    LET call   == procs[p]
        survey == call.survey
        found  == GetPoolBySurveyID(call.response.SurveyID)
    IN
    /\ call.pc = "complete_pool"
    /\ procs' =
         IF found = {} THEN Finish(p, "record not found")
         ELSE LET poolID == CHOOSE i \in found : TRUE IN
              IF ~CanProcessReward(pools[poolID])
              THEN Finish(p, "insufficient reward pool")
              ELSE [procs EXCEPT
                      ![p].pc = "complete_process",
                      ![p].pool = poolID,
                      ![p].reward = FinalReward(survey.RewardPerResponse,
                                                call.response.QualityScore),
                      ![p].xp = XpEarned(survey.EstimatedDuration,
                                         call.response.QualityScore)]
    /\ UNCHANGED <<dbVars, served, scoreIn, scoreOut, valIn, valOut, now, balance>>

\* the transaction row with another status than pending
RewardTransaction_Completed(response, rid, poolID, finalReward) ==
    [UserID     |-> response.UserID,
     SurveyID   |-> response.SurveyID,
     ResponseID |-> rid,
     PoolID     |-> poolID,
     Type       |-> "reward",
     Amount     |-> finalReward,
     Status     |-> "completed",
     RetryCount |-> 0]

\* processRewards lines 506-515: the transaction row of a settlement
RewardTransaction(response, rid, poolID, finalReward) ==
    [UserID     |-> response.UserID,
     SurveyID   |-> response.SurveyID,
     ResponseID |-> rid,
     PoolID     |-> poolID,
     Type       |-> "reward",
     Amount     |-> finalReward,
     Status     |-> "pending",
     RetryCount |-> 0]

\* RewardRepository.ProcessReward: one transaction that locks the pool row,
\* rechecks and debits it (RewardPool.ProcessReward) and inserts the
\* RewardTransaction
rewardRepo_ProcessReward(p) ==
    LET call == procs[p]
        pool == pools[call.pool]
    IN
    /\ call.pc = "complete_process"
    /\ IF ~CanProcessReward(pool)
       THEN /\ procs' = Finish(p, "cannot process reward: insufficient funds or pool inactive")
            /\ UNCHANGED <<pools, transactions>>
       ELSE /\ pools' = [pools EXCEPT ![call.pool] = RewardPool_ProcessReward(pool)]
            /\ transactions' = Append(transactions,
                  RewardTransaction(call.response, call.rid, call.pool, call.reward))
            /\ procs' = [procs EXCEPT ![p].pc = "complete_balance"]
    /\ UNCHANGED <<surveys, responses, answers, users, served, scoreIn, scoreOut, valIn, valOut, now, balance>>

\* userRepository.UpdateBalance succeeds: total_earned = total_earned + earned
\* (the xp argument is not stored); then UpdateStatistics, a no-op, and the
\* reply with the certificate of lines 228-229
userRepo_UpdateBalance(p) ==
    LET call == procs[p] IN
    /\ call.pc = "complete_balance"
    /\ users' = [users EXCEPT ![call.response.UserID].TotalEarned = @ + call.reward]
    /\ procs' = [procs EXCEPT ![p] =
                    Done([call EXCEPT !.cert =
                             generateNFTCertificate(call.response.SurveyID,
                                                    call.response.UserID, call.rid)],
                         "ok")]
    /\ UNCHANGED <<surveys, responses, answers, pools, transactions, served, scoreIn, scoreOut, valIn, valOut, now, balance>>

\* userRepository.UpdateBalance returns the database's error: nothing is written
userRepo_UpdateBalance_Error(p) ==
    /\ procs[p].pc = "complete_balance"
    /\ procs' = Finish(p, "database error")
    /\ UNCHANGED <<dbVars, served, scoreIn, scoreOut, valIn, valOut, now, balance>>

ResponseIds == DOMAIN responses
Batches == {<<>>} \cup {<<a>> : a \in AnswerReqs}

\* the requests clients send, with answers from reqs, batches from batches
\* and reported durations from durations
NextWith(reqs, batches, durations) ==
    \/ \E u \in UserIds, s \in SurveyIds : PublishSurvey(u, s)
    \/ \E p \in Procs, u \in UserIds, s \in SurveyIds : StartSurvey_Check(p, u, s)
    \/ \E p \in Procs : StartSurvey_Create(p)
    \/ \E p \in Procs, u \in UserIds, r \in ResponseIds, b \in batches :
          SubmitAnswers_GetByID(p, u, r, b)
    \/ \E p \in Procs : SubmitAnswers_Loop(p)
    \/ \E p \in Procs, u \in UserIds, r \in ResponseIds, a \in reqs :
          UpdateAnswer_GetByID(p, u, r, a.QuestionID, a)
    \/ \E p \in Procs : UpdateAnswer_Upsert(p)
    \/ \E p \in Procs, u \in UserIds, r \in ResponseIds : AbandonSurvey_GetByID(p, u, r)
    \/ \E p \in Procs, e \in ElapsedTimes : AbandonSurvey_Update(p, e)
    \/ \E p \in Procs, u \in UserIds, r \in ResponseIds, b \in batches, d \in durations :
          CompleteSurvey_GetByID(p, u, r, b, d)
    \/ \E p \in Procs : CompleteSurvey_SubmitAnswers(p)
    \/ \E p \in Procs : CompleteSurvey_Update(p)
    \/ \E p \in Procs : processRewards_GetPool(p)
    \/ \E p \in Procs : rewardRepo_ProcessReward(p)
    \/ \E p \in Procs : userRepo_UpdateBalance(p)
    \/ \E p \in Procs : userRepo_UpdateBalance_Error(p)

Next == NextWith(AnswerReqs, Batches, Durations)

\* the survey admits one participant
Init == InitWith({1})

\* the survey admits two participants
InitTwo == InitWith({2})

Spec == Init /\ [][Next]_vars

SpecTwo == InitTwo /\ [][Next]_vars

(***************************************************************************)
(* responseService.GetResponse next to the other requests, on the survey   *)
(* that admits two participants                                            *)
(***************************************************************************)
\* lines 244-256 and responseToDTO: GetWithAnswers returns the row with its
\* survey; the reply carries a certificate if the response is completed
GetResponse(p, userID, rid) ==
    LET response == responses[rid]
        call == [IdleProc EXCEPT !.op = "GetResponse", !.user = userID, !.rid = rid,
                                 !.sid = response.SurveyID]
    IN
    /\ Accept(p)
    /\ procs' = [procs EXCEPT ![p] =
          IF response.UserID # userID THEN Done(call, "unauthorized")
          ELSE Done([call EXCEPT !.cert =
                        IF IsCompleted(response)
                        THEN generateNFTCertificate(response.SurveyID,
                                                    response.UserID, rid)
                        ELSE NoCert], "ok")]
    /\ UNCHANGED <<dbVars, scoreIn, scoreOut, valIn, valOut, now, balance>>

\* GetResponseProgress lines 300-303: the progress it reports for a response,
\* in percent (a read of the response's answers and the survey's questions)
GetResponseProgress(rid) ==
    LET questionsTotal    == Len(surveys[responses[rid].SurveyID].Questions)
        questionsAnswered == Cardinality(AnswersOf(rid))
    IN (questionsAnswered * 100) \div questionsTotal

NextCert ==
    \/ Next
    \/ \E p \in Procs, u \in UserIds, r \in ResponseIds : GetResponse(p, u, r)

SpecCert == InitTwo /\ [][NextCert]_vars

(***************************************************************************)
(* surveyService.UpdateSurvey and DeleteSurvey, next to PublishSurvey      *)
(***************************************************************************)
\* the question list of an update: one optional text question, to which the
\* database gives the next id
UpdatedQuestions ==
    << [ID |-> 2, Type |-> "text", Required |-> FALSE,
        MinLength |-> Nil, MaxLength |-> Nil,
        MinValue |-> Nil, MaxValue |-> Nil] >>

\* dto.UpdateSurveyRequest: a number that is not given is Nil, a question
\* list that is not given is the nil slice (HasQuestions is FALSE)
UpdateSurveyReqs ==
    { [RewardAmount |-> ra, MaxParticipants |-> mp,
       HasQuestions |-> hq, Questions |-> IF hq THEN UpdatedQuestions ELSE <<>>] :
      ra \in {Nil, 2}, mp \in {Nil, 2}, hq \in BOOLEAN }

CanBeEdited(s) == s.Status = "draft"

\* lines 171-241: the fields of the request written into the loaded survey
ApplyUpdate(survey, req) ==
    LET s1 == IF req.RewardAmount = Nil THEN survey
              ELSE [survey EXCEPT
                       !.RewardPerResponse = req.RewardAmount * ScoreScale,
                       !.TotalRewardPool =
                           req.RewardAmount * ScoreScale * survey.MaxResponses]
        s2 == IF req.MaxParticipants = Nil THEN s1
              ELSE [s1 EXCEPT
                       !.MaxResponses = req.MaxParticipants,
                       !.TotalRewardPool = s1.RewardPerResponse * req.MaxParticipants]
    IN IF ~req.HasQuestions THEN s2 ELSE [s2 EXCEPT !.Questions = req.Questions]

\* lines 155-170: the checks on the survey just loaded
UpdateSurveyChecks(survey, userID) ==
    IF survey.DeletedAt THEN "record not found"
    ELSE IF survey.CreatorID # userID THEN "unauthorized"
    ELSE IF ~CanBeEdited(survey) THEN "survey cannot be edited after publishing"
    ELSE "ok"

\* lines 154-204: load the survey, check it and apply the request's fields
UpdateSurvey_GetByID(p, userID, sid, req) ==
    LET survey == surveys[sid]
        call == [IdleProc EXCEPT !.op = "UpdateSurvey", !.user = userID, !.sid = sid]
        chk == UpdateSurveyChecks(survey, userID)
    IN
    /\ Accept(p)
    /\ procs' = [procs EXCEPT ![p] =
          IF chk # "ok" THEN Done(call, chk)
          ELSE [call EXCEPT !.survey = ApplyUpdate(survey, req),
                            !.replace = req.HasQuestions,
                            !.pc = IF req.HasQuestions THEN "update_delete_questions"
                                   ELSE "update_save"]]
    /\ UNCHANGED <<dbVars, scoreIn, scoreOut, valIn, valOut, now, balance>>

\* lines 206-211: surveyRepo.DeleteQuestions
UpdateSurvey_DeleteQuestions(p) ==
    /\ procs[p].pc = "update_delete_questions"
    /\ surveys' = [surveys EXCEPT ![procs[p].sid].Questions = <<>>]
    /\ procs' = [procs EXCEPT ![p].pc = "update_save"]
    /\ UNCHANGED <<responses, answers, pools, transactions, users, served, scoreIn, scoreOut, valIn, valOut, now, balance>>

\* lines 243-248: surveyRepo.Update saves every column of the loaded row
\* (db.Save) and inserts the questions that have no row yet
UpdateSurvey_Update(p) ==
    LET call == procs[p] IN
    /\ call.pc = "update_save"
    /\ surveys' = [surveys EXCEPT ![call.sid] =
                      IF call.replace THEN call.survey
                      ELSE [call.survey EXCEPT !.Questions = surveys[call.sid].Questions]]
    /\ procs' = Finish(p, "ok")
    /\ UNCHANGED <<responses, answers, pools, transactions, users, served, scoreIn, scoreOut, valIn, valOut, now, balance>>

DeleteSurveyChecks(survey, userID) ==
    IF survey.DeletedAt THEN "record not found"
    ELSE IF survey.CreatorID # userID THEN "unauthorized"
    ELSE IF survey.Status # "draft" THEN "only draft surveys can be deleted"
    ELSE "ok"

\* lines 360-375: load the survey and check it
DeleteSurvey_GetByID(p, userID, sid) ==
    LET call == [IdleProc EXCEPT !.op = "DeleteSurvey", !.user = userID, !.sid = sid]
        chk == DeleteSurveyChecks(surveys[sid], userID)
    IN
    /\ Accept(p)
    /\ procs' = [procs EXCEPT ![p] =
          IF chk # "ok" THEN Done(call, chk)
          ELSE [call EXCEPT !.pc = "delete_delete"]]
    /\ UNCHANGED <<dbVars, scoreIn, scoreOut, valIn, valOut, now, balance>>

\* line 377: surveyRepo.Delete sets deleted_at
DeleteSurvey_Delete(p) ==
    /\ procs[p].pc = "delete_delete"
    /\ surveys' = [surveys EXCEPT ![procs[p].sid].DeletedAt = TRUE]
    /\ procs' = Finish(p, "ok")
    /\ UNCHANGED <<responses, answers, pools, transactions, users, served, scoreIn, scoreOut, valIn, valOut, now, balance>>

\* PublishSurvey next to other requests of the survey service.
\* lines 252-280: load the survey, check it and set the status on the
\* loaded row
PublishSurvey_GetByID(p, userID, sid) ==
    LET survey == surveys[sid]
        call == [IdleProc EXCEPT !.op = "PublishSurvey", !.user = userID, !.sid = sid]
        chk == PublishSurveyChecks(survey, userID)
    IN
    /\ Accept(p)
    /\ procs' = [procs EXCEPT ![p] =
          IF chk # "ok" THEN Done(call, chk)
          ELSE [call EXCEPT !.survey = [survey EXCEPT !.Status = "published"],
                            !.pc = "publish_save"]]
    /\ UNCHANGED <<dbVars, scoreIn, scoreOut, valIn, valOut, now, balance>>

\* lines 282-296 and surveyRepository.PublishWithRewardPool: one transaction
\* saves every column of the loaded row and inserts the pool; the insert of
\* a second pool for the survey breaks the unique index on survey_id and the
\* transaction is rolled back
PublishSurvey_PublishWithRewardPool(p) ==
    LET call == procs[p] IN
    /\ call.pc = "publish_save"
    /\ IF GetPoolBySurveyID(call.sid) # {}
       THEN /\ procs' = Finish(p, "duplicate key value violates unique constraint")
            /\ UNCHANGED <<surveys, pools>>
       ELSE /\ surveys' = [surveys EXCEPT ![call.sid] =
                             [call.survey EXCEPT !.Questions = surveys[call.sid].Questions]]
            /\ pools' = Append(pools, NewRewardPool(call.sid, call.survey))
            /\ procs' = Finish(p, "ok")
    /\ UNCHANGED <<responses, answers, transactions, users, served, scoreIn, scoreOut, valIn, valOut, now, balance>>

NextSurvey ==
    \/ \E p \in Procs, u \in UserIds, s \in SurveyIds : PublishSurvey_GetByID(p, u, s)
    \/ \E p \in Procs : PublishSurvey_PublishWithRewardPool(p)
    \/ \E p \in Procs, u \in UserIds, s \in SurveyIds, req \in UpdateSurveyReqs :
          UpdateSurvey_GetByID(p, u, s, req)
    \/ \E p \in Procs : UpdateSurvey_DeleteQuestions(p)
    \/ \E p \in Procs : UpdateSurvey_Update(p)
    \/ \E p \in Procs, u \in UserIds, s \in SurveyIds : DeleteSurvey_GetByID(p, u, s)
    \/ \E p \in Procs : DeleteSurvey_Delete(p)

SpecSurvey == Init /\ [][NextSurvey]_vars

(***************************************************************************)
(* The creator's UpdateSurvey requests that raise the reward, next to the   *)
(* requests of the respondents                                             *)
(***************************************************************************)
RewardUpdateReqs ==
    {req \in UpdateSurveyReqs :
        req.RewardAmount # Nil /\ req.MaxParticipants = Nil /\ ~req.HasQuestions}

NextEdit ==
    \/ Next
    \/ \E p \in Procs, s \in SurveyIds, req \in RewardUpdateReqs :
          UpdateSurvey_GetByID(p, CreatorID, s, req)
    \/ \E p \in Procs : UpdateSurvey_Update(p)

SpecEdit == Init /\ [][NextEdit]_vars

(***************************************************************************)
(* One request at a time on a survey of two questions: question 1 is a     *)
(* required text, question 2 an optional text.  Clients send batches of up *)
(* to two answers.                                                         *)
(***************************************************************************)
SeqQuestions ==
    << [ID |-> 1, Type |-> "text", Required |-> TRUE,
        MinLength |-> Nil, MaxLength |-> Nil,
        MinValue |-> Nil, MaxValue |-> Nil],
       [ID |-> 2, Type |-> "text", Required |-> FALSE,
        MinLength |-> Nil, MaxLength |-> Nil,
        MinValue |-> Nil, MaxValue |-> Nil] >>

\* a text for question 1, question 1 skipped, a text for question 2, and a
\* text for question 3, which is no question of the survey
SeqAnswerReqs ==
    { [QuestionID |-> 1, Answer |-> TextValue("a"), IsSkipped |-> FALSE],
      [QuestionID |-> 1, Answer |-> TextValue(""),  IsSkipped |-> TRUE],
      [QuestionID |-> 2, Answer |-> TextValue("a"), IsSkipped |-> FALSE],
      [QuestionID |-> 3, Answer |-> TextValue("a"), IsSkipped |-> FALSE] }

SeqBatches ==
    {<<>>} \cup {<<a>> : a \in SeqAnswerReqs}
           \cup {<<a, b>> : a \in SeqAnswerReqs, b \in SeqAnswerReqs}

\* the second handler takes no request
InitSeq ==
    /\ \E ra \in RewardAmounts, et \in EstimatedTimes, am \in AllowMultipleSet :
          surveys = [s \in SurveyIds |->
                        [CreateSurvey(ra, 1, et, am) EXCEPT !.Questions = SeqQuestions]]
    /\ responses = <<>>
    /\ answers = {}
    /\ pools = <<>>
    /\ transactions = <<>>
    /\ users = [u \in UserIds |-> NewUser]
    /\ procs = [p \in Procs |-> IF p = 1 THEN IdleProc
                                 ELSE [IdleProc EXCEPT !.pc = "closed"]]
    /\ served = 0
    /\ scoreIn = <<>>
    /\ scoreOut = <<>>
    /\ valIn = <<>>
    /\ valOut = "none"
    /\ now = 0
    /\ balance = NewUserBalance(0)

\* the time the client reports for the whole survey, in seconds
SeqDurations == {20, 40}

NextSeq == NextWith(SeqAnswerReqs, SeqBatches, SeqDurations)

SpecSeq == InitSeq /\ [][NextSeq]_vars

(***************************************************************************)
(* One request at a time on a survey with a start and an end date, while   *)
(* the clock advances.                                                     *)
(***************************************************************************)
MaxNow == 2

\* the dates a creator gives: none, or the time 1
SurveyDates == {Nil, 1}

InitClock ==
    /\ \E ra \in RewardAmounts, et \in EstimatedTimes, am \in AllowMultipleSet,
          sd \in SurveyDates, ed \in SurveyDates :
          surveys = [s \in SurveyIds |->
                        [CreateSurvey(ra, 1, et, am) EXCEPT !.StartDate = sd,
                                                            !.EndDate = ed]]
    /\ responses = <<>>
    /\ answers = {}
    /\ pools = <<>>
    /\ transactions = <<>>
    /\ users = [u \in UserIds |-> NewUser]
    /\ procs = [p \in Procs |-> IF p = 1 THEN IdleProc
                                 ELSE [IdleProc EXCEPT !.pc = "closed"]]
    /\ served = 0
    /\ scoreIn = <<>>
    /\ scoreOut = <<>>
    /\ valIn = <<>>
    /\ valOut = "none"
    /\ now = 0
    /\ balance = NewUserBalance(0)

\* time.Now() advances
Tick ==
    /\ now < MaxNow
    /\ now' = now + 1
    /\ UNCHANGED <<dbVars, procs, served, scoreIn, scoreOut, valIn, valOut, balance>>

NextClock ==
    \/ NextWith(AnswerReqs, Batches, Durations)
    \/ Tick

SpecClock == InitClock /\ [][NextClock]_vars

(***************************************************************************)
(* calculateQualityScore on its own: every response / survey shape up to   *)
(* MaxScoreQuestions questions.  A survey that has responses is published, *)
(* and PublishSurvey refuses a survey without questions, so the survey has *)
(* at least one question.  The first `required` questions are required,    *)
(* the first `answered` questions are answered and the first `skipped` of  *)
(* those answers are skipped.                                              *)
(***************************************************************************)
ScoreDurations == {0, 4, 5, 60}

ScoreQuestions(total, required) ==
    [i \in 1..total |->
        [ID |-> i, Type |-> "text", Required |-> (i <= required),
         MinLength |-> Nil, MaxLength |-> Nil,
        MinValue |-> Nil, MaxValue |-> Nil]]

ScoreAnswers(answered, skipped) ==
    {[ResponseID |-> 1, QuestionID |-> i,
      AnswerText |-> IF i <= skipped THEN "" ELSE "a",
      IsSkipped  |-> (i <= skipped)] : i \in 1..answered}

InitScore ==
    /\ surveys = [s \in SurveyIds |-> CreateSurvey(1, 1, 3, FALSE)]
    /\ responses = <<>>
    /\ answers = {}
    /\ pools = <<>>
    /\ transactions = <<>>
    /\ users = [u \in UserIds |-> NewUser]
    /\ procs = [p \in Procs |-> IdleProc]
    /\ served = 0
    /\ \E total \in 1..MaxScoreQuestions :
       \E required \in 0..total, answered \in 0..total :
       \E skipped \in 0..answered, duration \in ScoreDurations :
          scoreIn = [total |-> total, required |-> required, answered |-> answered,
                     skipped |-> skipped, duration |-> duration, scored |-> FALSE]
    /\ scoreOut = [num |-> 0, den |-> 1]
    /\ valIn = <<>>
    /\ valOut = "none"
    /\ now = 0
    /\ balance = NewUserBalance(0)

Score ==
    /\ ~scoreIn.scored
    /\ scoreOut' = calculateQualityScore(
                      ScoreAnswers(scoreIn.answered, scoreIn.skipped),
                      scoreIn.duration,
                      ScoreQuestions(scoreIn.total, scoreIn.required))
    /\ scoreIn' = [scoreIn EXCEPT !.scored = TRUE]
    /\ UNCHANGED <<dbVars, procs, served, valIn, valOut, now, balance>>

NextScore == Score

SpecScore == InitScore /\ [][NextScore]_vars

(***************************************************************************)
(* Answer validation on its own: the answer row SubmitAnswers builds from  *)
(* one request (lines 152-159) and its validation against the question     *)
(* (lines 161-164), for every question type and every kind of answer value *)
(***************************************************************************)
QuestionTypes ==
    {"multiple_choice", "single_choice", "text", "textarea", "rating", "yes_no",
     "scale", "date", "number"}

\* the Type tags of an answer value, and one that is none of them
AnswerTypes == {"text", "number", "boolean", "array", "rating", "scale", "date", "choice"}

ValContents ==
    {NullContent, StringContent(""), StringContent("a"), StringContent("abcd"),
     NumberContent(3), BoolContent(FALSE)}

\* chosen options are option values of the question, which are not empty
ValOptions == {<<>>, <<"x", "y">>}
ValRatings == {Nil, 1, 3}
ValScales == {Nil, 3, 5}
ValDates == {Nil, 2}

\* min/max length and min/max value of a question: none, or both
ValLengthBounds == {<<Nil, Nil>>, <<2, 3>>}
ValValueBounds == {<<Nil, Nil>>, <<2, 4>>}

InitValidate ==
    /\ surveys = [s \in SurveyIds |-> CreateSurvey(1, 1, 3, FALSE)]
    /\ responses = <<>>
    /\ answers = {}
    /\ pools = <<>>
    /\ transactions = <<>>
    /\ users = [u \in UserIds |-> NewUser]
    /\ procs = [p \in Procs |-> IdleProc]
    /\ served = 0
    /\ scoreIn = <<>>
    /\ scoreOut = <<>>
    /\ \E qt \in QuestionTypes, required \in BOOLEAN,
          lb \in ValLengthBounds, vb \in ValValueBounds,
          at \in AnswerTypes, content \in ValContents, options \in ValOptions,
          rating \in ValRatings, scale \in ValScales, date \in ValDates,
          skipped \in BOOLEAN :
          valIn = [question |-> [ID |-> 1, Type |-> qt, Required |-> required,
                                 MinLength |-> lb[1], MaxLength |-> lb[2],
                                 MinValue |-> vb[1], MaxValue |-> vb[2]],
                   req |-> [QuestionID |-> 1,
                            Answer |-> [Type |-> at, Content |-> content,
                                        Options |-> options, Rating |-> rating,
                                        Scale |-> scale, Date |-> date],
                            IsSkipped |-> skipped],
                   done |-> FALSE]
    /\ valOut = "none"
    /\ now = 0
    /\ balance = NewUserBalance(0)

Validate ==
    /\ ~valIn.done
    /\ valOut' = ValidateAnswer(MkAnswer(1, valIn.req.QuestionID, valIn.req),
                                valIn.question)
    /\ valIn' = [valIn EXCEPT !.done = TRUE]
    /\ UNCHANGED <<dbVars, procs, served, scoreIn, scoreOut, now, balance>>

NextValidate == Validate

SpecValidate == InitValidate /\ [][NextValidate]_vars

(***************************************************************************)
(* RewardTransaction on its own: two pending transactions, as processRewards *)
(* records them, are marked failed or completed in any order                *)
(***************************************************************************)
MaxRetryCount == 5

RetryAmounts == {0, 50, 100}

InitRetry ==
    /\ surveys = [s \in SurveyIds |-> CreateSurvey(1, 2, 3, FALSE)]
    /\ responses = <<>>
    /\ answers = {}
    /\ pools = <<>>
    /\ \E a1 \in RetryAmounts, a2 \in RetryAmounts :
          transactions =
             << RewardTransaction([NullResponse EXCEPT !.UserID = 1, !.SurveyID = 1],
                                  1, 1, a1),
                RewardTransaction([NullResponse EXCEPT !.UserID = 2, !.SurveyID = 1],
                                  2, 1, a2) >>
    /\ users = [u \in UserIds |-> NewUser]
    /\ procs = [p \in Procs |-> IdleProc]
    /\ served = 0
    /\ scoreIn = <<>>
    /\ scoreOut = <<>>
    /\ valIn = <<>>
    /\ valOut = "none"
    /\ now = 0
    /\ balance = NewUserBalance(0)

MarkTransactionFailed(t) ==
    /\ transactions[t].RetryCount < MaxRetryCount
    /\ transactions' = [transactions EXCEPT ![t] = MarkAsFailed(@)]
    /\ UNCHANGED <<surveys, responses, answers, pools, users, procs, served, scoreIn, scoreOut, valIn, valOut, now, balance>>

MarkTransactionCompleted(t) ==
    /\ transactions' = [transactions EXCEPT ![t] = RewardTransaction_MarkAsCompleted(@)]
    /\ UNCHANGED <<surveys, responses, answers, pools, users, procs, served, scoreIn, scoreOut, valIn, valOut, now, balance>>

NextRetry ==
    \/ \E t \in DOMAIN transactions : MarkTransactionFailed(t)
    \/ \E t \in DOMAIN transactions : MarkTransactionCompleted(t)

SpecRetry == InitRetry /\ [][NextRetry]_vars

(***************************************************************************)
(* UserBalance on its own: the row of a user, with or without a pending     *)
(* amount, through a bounded number of UpdateBalance calls                  *)
(***************************************************************************)
MaxBalanceUpdates == 3

PendingAmounts == {0, 50}
EarnedAmounts == {0, 50, 100}
WithdrawnAmounts == {0, 50, 150}

\* the amounts a withdrawal may ask for
WithdrawAmounts == {-50, 0, 50, 100, 200}

InitBalance ==
    /\ surveys = [s \in SurveyIds |-> CreateSurvey(1, 1, 3, FALSE)]
    /\ responses = <<>>
    /\ answers = {}
    /\ pools = <<>>
    /\ transactions = <<>>
    /\ users = [u \in UserIds |-> NewUser]
    /\ procs = [p \in Procs |-> IdleProc]
    /\ served = 0
    /\ scoreIn = <<>>
    /\ scoreOut = <<>>
    /\ valIn = <<>>
    /\ valOut = "none"
    /\ now = 0
    /\ \E pending \in PendingAmounts : balance = NewUserBalance(pending)

UpdateBalance(earnedAmount, withdrawnAmount) ==
    /\ balance.updates < MaxBalanceUpdates
    /\ balance' = UserBalance_UpdateBalance(balance, earnedAmount, withdrawnAmount)
    /\ UNCHANGED <<dbVars, procs, served, scoreIn, scoreOut, valIn, valOut, now>>

NextBalance ==
    \E e \in EarnedAmounts, w \in WithdrawnAmounts : UpdateBalance(e, w)

SpecBalance == InitBalance /\ [][NextBalance]_vars

(***************************************************************************)
(* Properties                                                              *)
(***************************************************************************)
Terminal(status) == status \in {"completed", "abandoned"}

TransactionsOf(rid) == {i \in DOMAIN transactions : transactions[i].ResponseID = rid}

TransactionsOnPool(poolID) == {i \in DOMAIN transactions : transactions[i].PoolID = poolID}

\* a finished call of the named operation made by the response's owner
FinishedOwnerCall(p, op) ==
    /\ procs[p].pc = "done"
    /\ procs[p].op = op
    /\ procs[p].rid \in DOMAIN responses
    /\ procs[p].user = responses[procs[p].rid].UserID

\* the errors Answer.ValidateAnswer returns for a final answer
AnswerErrors == {"answer is required", "answer too short", "answer too long"}

\* C1: of two CompleteSurvey calls by the owner on the same response, neither
\* refused for its final answers, when one settles successfully the other
\* fails with 'response is not active' and the response has exactly one
\* reward transaction
C1_ExactlyOneSettlement ==
    \A p, q \in Procs :
        ( /\ p # q
          /\ FinishedOwnerCall(p, "CompleteSurvey")
          /\ FinishedOwnerCall(q, "CompleteSurvey")
          /\ procs[p].rid = procs[q].rid
          /\ procs[p].result = "ok"
          /\ procs[q].result \notin AnswerErrors )
        => ( /\ procs[q].result = "response is not active"
             /\ Cardinality(TransactionsOf(procs[p].rid)) = 1 )

\* C2: every stored reward pool has remaining_amount = total_amount - paid_out
\* and paid_out <= total_amount
C2_PoolBalance ==
    \A i \in DOMAIN pools :
        /\ pools[i].RemainingAmount = pools[i].TotalAmount - pools[i].PaidOut
        /\ pools[i].PaidOut <= pools[i].TotalAmount

\* a pool has been debited down to nothing
C2_Witness ==
    \E i \in DOMAIN pools :
        /\ pools[i].PaidOut > 0
        /\ pools[i].PaidOut = pools[i].TotalAmount
        /\ pools[i].RemainingAmount = 0

\* C3: when CompleteSurvey fails because the pool cannot pay, and no other
\* call has settled the response, the stored response still has status
\* started, no completion time and no quality score
C3_FailedSettlementLeavesStarted ==
    \A p \in Procs :
        ( /\ FinishedOwnerCall(p, "CompleteSurvey")
          /\ procs[p].result = "insufficient reward pool"
          /\ TransactionsOf(procs[p].rid) = {} )
        => ( /\ responses[procs[p].rid].Status = "started"
             /\ ~responses[procs[p].rid].CompletedAt
             /\ responses[procs[p].rid].QualityScore = 0 )

\* C4: when CompleteSurvey fails with the error of the balance update, no
\* reward transaction of the response and no debit of the pool persists
C4_SettlementAllOrNothing ==
    \A p \in Procs :
        ( /\ FinishedOwnerCall(p, "CompleteSurvey")
          /\ procs[p].result = "database error" )
        => TransactionsOf(procs[p].rid) = {}

\* C5: a pool never pays more responses than max_responses nor more than
\* its total_amount, however the completions of different responses that
\* share it interleave
C5_PoolNeverOverpaid ==
    \A i \in DOMAIN pools :
        /\ pools[i].CurrentResponses <= pools[i].MaxResponses
        /\ Cardinality(TransactionsOnPool(i)) <= pools[i].MaxResponses
        /\ Cardinality(TransactionsOnPool(i)) * pools[i].RewardPerResponse
              <= pools[i].TotalAmount

\* two completions of different responses both found the pool able to pay;
\* one debited it to its limit and the other was refused by the recheck
C5_Witness ==
    \E p, q \in Procs :
        /\ p # q
        /\ FinishedOwnerCall(p, "CompleteSurvey")
        /\ FinishedOwnerCall(q, "CompleteSurvey")
        /\ procs[p].rid # procs[q].rid
        /\ procs[p].result = "ok"
        /\ procs[q].result = "cannot process reward: insufficient funds or pool inactive"
        /\ \E i \in DOMAIN pools : pools[i].CurrentResponses = pools[i].MaxResponses

\* C6: a response's status is started, completed or abandoned, and a
\* completed or abandoned response never changes its status again
C6_TerminalIsFinal ==
    [][\A i \in DOMAIN responses :
          /\ responses[i].Status \in {"started", "completed", "abandoned"}
          /\ Terminal(responses[i].Status)
                => responses'[i].Status = responses[i].Status]_vars

\* a SubmitAnswers or UpdateAnswer call by the owner has just been taken up
\* by slot p for a response that is stored as completed or abandoned
AnswerCallOnTerminal(p) ==
    /\ served' = served + 1
    /\ procs'[p] # procs[p]
    /\ procs'[p].op \in {"SubmitAnswers", "UpdateAnswer"}
    /\ procs'[p].rid \in DOMAIN responses
    /\ procs'[p].user = responses[procs'[p].rid].UserID
    /\ Terminal(responses[procs'[p].rid].Status)

\* C7: a SubmitAnswers or UpdateAnswer call by the owner on a completed or
\* abandoned response fails with 'response is not active' and leaves the
\* answers as they are
C7_TerminalRejectsAnswers ==
    [][\A p \in Procs :
          AnswerCallOnTerminal(p)
             => ( /\ procs'[p].pc = "done"
                  /\ procs'[p].result = "response is not active"
                  /\ procs'[p].stored = 0
                  /\ answers' = answers )]_vars

\* both an UpdateAnswer and a SubmitAnswers call by the owner were refused
\* on a response that is completed or abandoned and has an answer
C7_Witness ==
    \E p, q \in Procs :
        /\ FinishedOwnerCall(p, "SubmitAnswers")
        /\ FinishedOwnerCall(q, "UpdateAnswer")
        /\ procs[p].rid = procs[q].rid
        /\ procs[p].result = "response is not active"
        /\ procs[q].result = "response is not active"
        /\ Terminal(responses[procs[p].rid].Status)
        /\ AnswersOf(procs[p].rid) # {}

\* C8: a response holds at most one answer per question id
C8_OneAnswerPerQuestion ==
    \A a, b \in answers :
        (a.ResponseID = b.ResponseID /\ a.QuestionID = b.QuestionID) => a = b

\* a SubmitAnswers call and an UpdateAnswer call each stored an answer of
\* the same response, which holds one answer: the later one replaced the
\* earlier one
C8_Witness ==
    \E p, q \in Procs :
        /\ FinishedOwnerCall(p, "SubmitAnswers")
        /\ FinishedOwnerCall(q, "UpdateAnswer")
        /\ procs[p].rid = procs[q].rid
        /\ procs[p].result = "ok" /\ procs[p].stored = 1
        /\ procs[q].result = "ok" /\ procs[q].stored = 1
        /\ Cardinality(AnswersOf(procs[p].rid)) = 1

\* C9: a response has at most one reward transaction, and a reward
\* transaction references only a completed response
C9_OneTransactionPerCompletedResponse ==
    /\ \A i \in DOMAIN responses : Cardinality(TransactionsOf(i)) <= 1
    /\ \A t \in DOMAIN transactions :
          responses[transactions[t].ResponseID].Status = "completed"

StartByRespondent(p) ==
    /\ served' = served + 1
    /\ procs'[p] # procs[p]
    /\ procs'[p].op = "StartSurvey"
    /\ ~surveys[procs'[p].sid].AllowMultiple
    /\ HasUserResponded(procs'[p].user, procs'[p].sid)

\* C11: on a survey with allow_multiple = false, StartSurvey by a user who
\* already has a response to it, in any status, fails with 'user has already
\* responded to this survey' and creates no response
C11_NoSecondResponse ==
    [][\A p \in Procs :
          StartByRespondent(p)
             => ( /\ procs'[p].pc = "done"
                  /\ procs'[p].result = "user has already responded to this survey"
                  /\ responses' = responses )]_vars

\* a user whose only response is completed was refused a second start
C11_Witness ==
    \E p \in Procs :
        /\ procs[p].pc = "done"
        /\ procs[p].op = "StartSurvey"
        /\ procs[p].result = "user has already responded to this survey"
        /\ Len(responses) = 1
        /\ responses[1].UserID = procs[p].user
        /\ responses[1].Status = "completed"

\* C12: a SubmitAnswers call that returns a validation error has stored
\* none of the answers of its batch
C12_BatchAllOrNothing ==
    \A p \in Procs :
        ( /\ FinishedOwnerCall(p, "SubmitAnswers")
          /\ procs[p].result \in AnswerErrors )
        => procs[p].stored = 0

\* the stored answers of response rid that Answer.ValidateAnswer, which
\* SubmitAnswers applies, rejects for their question
RejectedAnswersOf(rid) ==
    {a \in AnswersOf(rid) :
        \E q \in GetQuestionByID(surveys[responses[rid].SurveyID], a.QuestionID) :
            ValidateAnswer(a, q) # "ok"}

\* C13: UpdateAnswer stores no answer that SubmitAnswers would reject for
\* its question: after a successful UpdateAnswer the response holds no
\* answer that fails the validation
C13_UpdateAnswerValidates ==
    \A p \in Procs :
        ( /\ FinishedOwnerCall(p, "UpdateAnswer")
          /\ procs[p].result = "ok" )
        => RejectedAnswersOf(procs[p].rid) = {}

\* a SubmitAnswers, UpdateAnswer, CompleteSurvey or AbandonSurvey call has
\* just been taken up by slot p for a response the caller does not own
CallByOtherUser(p) ==
    /\ served' = served + 1
    /\ procs'[p] # procs[p]
    /\ procs'[p].op \in {"SubmitAnswers", "UpdateAnswer", "CompleteSurvey", "AbandonSurvey"}
    /\ procs'[p].rid \in DOMAIN responses
    /\ procs'[p].user # responses[procs'[p].rid].UserID

\* C14: SubmitAnswers, UpdateAnswer, CompleteSurvey and AbandonSurvey by a
\* user other than the owner fail with 'unauthorized', whatever the status
\* of the response, and leave responses, answers, pools, transactions and
\* balances unchanged
C14_OtherUserUnauthorized ==
    [][\A p \in Procs :
          CallByOtherUser(p)
             => ( /\ procs'[p].pc = "done"
                  /\ procs'[p].result = "unauthorized"
                  /\ procs'[p].stored = 0
                  /\ dbVars' = dbVars )]_vars

\* a user other than the owner was refused as unauthorized on a response
\* that is completed or abandoned
C14_Witness ==
    \E p \in Procs :
        /\ procs[p].pc = "done"
        /\ procs[p].op \in {"SubmitAnswers", "UpdateAnswer", "CompleteSurvey", "AbandonSurvey"}
        /\ procs[p].rid \in DOMAIN responses
        /\ procs[p].user # responses[procs[p].rid].UserID
        /\ procs[p].result = "unauthorized"
        /\ Terminal(responses[procs[p].rid].Status)

\* an answer value carries content of the kind its Type names
HasContent(answerValue) ==
    \/ answerValue.Type = "text" /\ answerValue.Content.k = "string"
                                 /\ answerValue.Content.v # ""
    \/ answerValue.Type = "number" /\ answerValue.Content.k = "number"
    \/ answerValue.Type = "boolean" /\ answerValue.Content.k = "bool"
    \/ answerValue.Type = "array" /\ answerValue.Options # <<>>
    \/ answerValue.Type = "rating" /\ answerValue.Rating # Nil
    \/ answerValue.Type = "scale" /\ answerValue.Scale # Nil
    \/ answerValue.Type = "date" /\ answerValue.Date # Nil

AnsweredAll(rid) ==
    LET questions == surveys[responses[rid].SurveyID].Questions IN
    /\ \A i \in DOMAIN questions :
          \E a \in AnswersOf(rid) : a.QuestionID = questions[i].ID /\ ~a.IsSkipped
    /\ \A a \in AnswersOf(rid) : ~a.IsSkipped
    /\ responses[rid].Duration > 15 * Len(questions)

\* C16: a successful CompleteSurvey returns rewardEarned = reward_per_response
\* * quality_score / 5 and xpEarned = floor(estimated_duration * 10 *
\* quality_score / 5); when the response answered every question without
\* skips at more than 15 seconds per question, quality_score = 5,
\* rewardEarned = reward_per_response and xpEarned = estimated_duration * 10
C16_RewardAmounts ==
    \A p \in DOMAIN procs :
        ( /\ FinishedOwnerCall(p, "CompleteSurvey")
          /\ procs[p].result = "ok" )
        => LET response == responses[procs[p].rid]
               survey   == surveys[response.SurveyID]
               scaled   == survey.EstimatedDuration * 10 * response.QualityScore
           IN /\ procs[p].reward * 5 * ScoreScale
                    = survey.RewardPerResponse * response.QualityScore
              /\ procs[p].xp * 5 * ScoreScale <= scaled
              /\ scaled < (procs[p].xp + 1) * 5 * ScoreScale
              /\ AnsweredAll(procs[p].rid)
                    => ( /\ response.QualityScore = 5 * ScoreScale
                         /\ procs[p].reward = survey.RewardPerResponse
                         /\ procs[p].xp = survey.EstimatedDuration * 10 )

\* a StartSurvey call has just been taken up by handler p
StartTaken(p) ==
    /\ served' = served + 1
    /\ procs'[p] # procs[p]
    /\ procs'[p].op = "StartSurvey"

\* the survey is published, now lies within its start/end dates and its
\* response count is below max_responses
SurveyOpen(survey) ==
    /\ survey.Status = "published"
    /\ survey.StartDate = Nil \/ survey.StartDate <= now
    /\ survey.EndDate = Nil \/ now <= survey.EndDate
    /\ survey.ResponseCount < survey.MaxResponses

XpColumns == DOMAIN NewUser \ {"TotalEarned"}

\* C18: when CompleteSurvey succeeds, the completing user's earned balance
\* grows by exactly the returned reward and an XP column of the user's row by
\* exactly the returned xp; no other user's row changes
C18_BalanceAndXpCredited ==
    [][ \A p \in DOMAIN procs :
           ( /\ procs[p].pc = "complete_balance"
             /\ procs'[p].pc = "done"
             /\ procs'[p].result = "ok" )
           => LET u == procs[p].user IN
              /\ users'[u].TotalEarned = users[u].TotalEarned + procs'[p].reward
              /\ \E f \in XpColumns : users'[u][f] = users[u][f] + procs'[p].xp
              /\ \A v \in UserIds \ {u} : users'[v] = users[v] ]_vars

\* a finished call whose reply carries a certificate
HasCertificate(p) ==
    /\ procs[p].pc = "done"
    /\ procs[p].result = "ok"
    /\ procs[p].cert # NoCert

C20_FixedAfterPublish ==
    [][ \A s \in SurveyIds :
           (surveys[s].Status # "draft" /\ ~surveys[s].DeletedAt)
           => /\ surveys'[s].Questions = surveys[s].Questions
              /\ surveys'[s].RewardPerResponse = surveys[s].RewardPerResponse
              /\ surveys'[s].MaxResponses = surveys[s].MaxResponses
              /\ ~surveys'[s].DeletedAt ]_vars

\* handler p has just settled: rewardRepo.ProcessReward returned without error
Settled(p) ==
    /\ procs[p].pc = "complete_process"
    /\ procs'[p].pc = "complete_balance"

\* C21: every successful settlement raises the pool's current_responses by 1
\* and its paid_out by reward_per_response and lowers its remaining_amount by
\* reward_per_response, whatever amount the quality score leaves to credit;
\* no other pool changes
C21_NominalDebit ==
    [][ \A p \in DOMAIN procs :
           Settled(p)
           => LET id == procs[p].pool IN
              /\ pools'[id].CurrentResponses = pools[id].CurrentResponses + 1
              /\ pools'[id].PaidOut = pools[id].PaidOut + pools[id].RewardPerResponse
              /\ pools'[id].RemainingAmount
                    = pools[id].RemainingAmount - pools[id].RewardPerResponse
              /\ pools[id].RewardPerResponse
                    = surveys[pools[id].SurveyID].RewardPerResponse
              /\ \A other \in DOMAIN pools \ {id} : pools'[other] = pools[other] ]_vars

\* two settlements that credited different amounts, both below
\* reward_per_response, have each debited the pool by reward_per_response
C21_Witness ==
    /\ Len(transactions) = 2
    /\ transactions[1].Amount # transactions[2].Amount
    /\ \A i \in DOMAIN transactions :
          transactions[i].Amount < pools[transactions[i].PoolID].RewardPerResponse
    /\ \A id \in DOMAIN pools :
          /\ pools[id].CurrentResponses = 2
          /\ pools[id].PaidOut = 2 * pools[id].RewardPerResponse
          /\ pools[id].RemainingAmount = 0

\* the pool has capacity and funds for one more response
HasRoom(rp) ==
    /\ rp.CurrentResponses < rp.MaxResponses
    /\ rp.RemainingAmount >= rp.RewardPerResponse

\* C22: after every settlement the pool is active only if current_responses <
\* max_responses and remaining_amount >= reward_per_response: the settlement
\* that uses up the capacity or the funds leaves the pool inactive
C22_ActiveOnlyWithRoom ==
    [][ \A p \in DOMAIN procs :
           Settled(p)
           => /\ pools'[procs[p].pool].IsActive => HasRoom(pools'[procs[p].pool])
              /\ ~HasRoom(pools'[procs[p].pool]) => ~pools'[procs[p].pool].IsActive
              /\ pools[procs[p].pool].IsActive ]_vars

\* the first settlement left the pool active, the second used up its capacity
\* and funds and left it inactive
C22_Witness ==
    \E id \in DOMAIN pools :
        /\ pools[id].MaxResponses = 2
        /\ pools[id].CurrentResponses = 2
        /\ pools[id].RemainingAmount = 0
        /\ ~pools[id].IsActive
        /\ Cardinality(TransactionsOnPool(id)) = 2

\* the reference algorithm on the counts of a scoring input, as a fraction:
\* 5 * answered / total, times 7/10 when answered # 0 and duration / answered
\* < 5, times (10 - k) / 10 once, clamped to [0, 5]
ReferenceScore(in) ==
    LET k      == IF in.skipped < in.required THEN in.skipped ELSE in.required
        ratio  == [num |-> 5 * in.answered, den |-> in.total]
        paced  == IF in.answered # 0 /\ in.duration < 5 * in.answered
                  THEN [num |-> ratio.num * 7, den |-> ratio.den * 10]
                  ELSE ratio
        skips  == [num |-> paced.num * (10 - k), den |-> paced.den * 10]
    IN  IF skips.num < 0 THEN [num |-> 0, den |-> 1]
        ELSE IF skips.num > 5 * skips.den THEN [num |-> 5, den |-> 1]
        ELSE skips

\* C23: calculateQualityScore returns the score of the reference algorithm
C23_ScoreIsReference ==
    (scoreIn # <<>> /\ scoreIn.scored)
    => scoreOut.num * ReferenceScore(scoreIn).den
          = ReferenceScore(scoreIn).num * scoreOut.den

\* a response answered too fast with two required questions skipped has been
\* scored 5 * (3/4) * 0.7 * 0.8
C23_Witness ==
    /\ scoreIn # <<>> /\ scoreIn.scored
    /\ scoreIn.total = 4 /\ scoreIn.answered = 3 /\ scoreIn.duration = 4
    /\ scoreIn.required = 2 /\ scoreIn.skipped = 2
    /\ scoreOut.num * 100 = 210 * scoreOut.den

\* C24: the quality score a successful CompleteSurvey stored is the score of
\* the answers stored for the response at completion, the final answers of
\* the call included
C24_ScoreOfStoredAnswers ==
    \A p \in DOMAIN procs :
        ( /\ FinishedOwnerCall(p, "CompleteSurvey")
          /\ procs[p].result = "ok" )
        => LET response == responses[procs[p].rid]
               survey   == surveys[response.SurveyID]
           IN response.QualityScore
                 = ToFixed(calculateQualityScore(AnswersOf(procs[p].rid),
                                                 response.Duration, survey.Questions))

\* C25: every stored answer of a response references a question of that
\* response's survey (SubmitAnswers skips an answer for any other question id)
C25_AnswersReferenceQuestions ==
    \A a \in answers :
        GetQuestionByID(surveys[responses[a.ResponseID].SurveyID], a.QuestionID) # {}

\* C26: the progress GetResponseProgress reports is between 0 and 100: a
\* response never holds more answers than its survey has questions
C26_ProgressAtMost100 ==
    \A rid \in DOMAIN responses :
        /\ Cardinality(AnswersOf(rid)) <= Len(surveys[responses[rid].SurveyID].Questions)
        /\ GetResponseProgress(rid) >= 0
        /\ GetResponseProgress(rid) <= 100

\* the error ValidateAnswer gives for the next final answer of handler p's
\* CompleteSurvey call, "ok" when it passes or its question is unknown
NextFinalAnswerError(p) ==
    LET call  == procs[p]
        req   == Head(call.batch)
        found == GetQuestionByID(surveys[responses[call.rid].SurveyID], req.QuestionID)
    IN IF found = {} THEN "ok"
       ELSE ValidateAnswer(MkAnswer(call.rid, req.QuestionID, req),
                           CHOOSE q \in found : TRUE)

\* C27: when a final answer given to CompleteSurvey fails validation, the
\* call fails with the validation error, the response stays started, and no
\* pool, transaction or balance changes
C27_RejectedFinalAnswersAbort ==
    [][ \A p \in DOMAIN procs :
           ( /\ procs[p].op = "CompleteSurvey"
             /\ procs[p].pc = "submit_loop"
             /\ procs'[p] # procs[p]
             /\ NextFinalAnswerError(p) # "ok" )
           => /\ procs'[p].pc = "done"
              /\ procs'[p].result = NextFinalAnswerError(p)
              /\ procs'[p].result \in AnswerErrors
              /\ responses' = responses
              /\ responses[procs[p].rid].Status = "started"
              /\ pools' = pools
              /\ transactions' = transactions
              /\ users' = users ]_vars

\* a CompleteSurvey whose final answers were refused has returned; the
\* response is started and has no transaction
C27_Witness ==
    \E p \in DOMAIN procs :
        /\ FinishedOwnerCall(p, "CompleteSurvey")
        /\ procs[p].result \in AnswerErrors
        /\ responses[procs[p].rid].Status = "started"
        /\ TransactionsOf(procs[p].rid) = {}
        /\ \A id \in DOMAIN pools : pools[id].CurrentResponses = 0
        /\ \A u \in UserIds : users[u].TotalEarned = 0

\* C28: a response has completed-at set if and only if its status is
\* completed; a started or abandoned response does not have it
C28_CompletedAtIffCompleted ==
    \A rid \in DOMAIN responses :
        responses[rid].CompletedAt <=> responses[rid].Status = "completed"

\* one response was completed and another abandoned
C28_Witness ==
    \E r1, r2 \in DOMAIN responses :
        /\ responses[r1].Status = "completed" /\ responses[r1].CompletedAt
        /\ responses[r2].Status = "abandoned" /\ ~responses[r2].CompletedAt

\* the numeric value of an answer: the rating of a rating answer, the scale
\* value of a scale answer, Nil when it has none
NumericValue(answerValue) ==
    IF answerValue.Type = "rating" THEN answerValue.Rating
    ELSE IF answerValue.Type = "scale" THEN answerValue.Scale
    ELSE Nil

\* C29: a rating answer to a rating question, or a scale answer to a scale
\* question, with both bounds configured, whose numeric value lies outside
\* [min, max] fails validation as out of range (unless it is already refused
\* as a missing required answer)
C29_OutOfRangeRejected ==
    ( /\ valIn # <<>> /\ valIn.done
      /\ valIn.question.Type \in {"rating", "scale"}
      /\ valIn.question.MinValue # Nil /\ valIn.question.MaxValue # Nil
      /\ valIn.req.Answer.Type = valIn.question.Type
      /\ ~valIn.req.IsSkipped
      /\ NumericValue(valIn.req.Answer) # Nil
      /\ \/ NumericValue(valIn.req.Answer) < valIn.question.MinValue
         \/ NumericValue(valIn.req.Answer) > valIn.question.MaxValue
      /\ valOut # "answer is required" )
    => valOut \in {"rating below minimum", "rating above maximum"}

\* C30: every successful settlement records exactly one RewardTransaction:
\* pending, of type reward, for the quality-scaled amount, carrying the
\* completing response's user, survey and response ids and the id of the
\* survey's pool; the rows recorded before stay as they were
C30_OneTransactionPerSettlement ==
    [][ \A p \in DOMAIN procs :
           Settled(p)
           => LET call == procs[p]
                  row  == transactions'[Len(transactions')]
              IN
              /\ Len(transactions') = Len(transactions) + 1
              /\ SubSeq(transactions', 1, Len(transactions)) = transactions
              /\ row.Status = "pending"
              /\ row.Type = "reward"
              /\ row.Amount = (surveys[call.response.SurveyID].RewardPerResponse
                                  * call.response.QualityScore) \div (5 * ScoreScale)
              /\ row.UserID = responses[call.rid].UserID
              /\ row.SurveyID = responses[call.rid].SurveyID
              /\ row.ResponseID = call.rid
              /\ pools[row.PoolID].SurveyID = row.SurveyID
              /\ row.PoolID = call.pool ]_vars

\* a settlement has recorded a pending transaction for a reduced, non-zero
\* amount, for a response that is stored as completed
C30_Witness ==
    \E i \in DOMAIN transactions :
        LET row == transactions[i] IN
        /\ row.Status = "pending"
        /\ row.Amount > 0
        /\ row.Amount < surveys[row.SurveyID].RewardPerResponse
        /\ responses[row.ResponseID].Status = "completed"
        /\ responses[row.ResponseID].UserID = row.UserID
        /\ \E p \in DOMAIN procs :
              procs[p].pc = "complete_balance" /\ procs[p].rid = row.ResponseID

\* the number of completed responses of a survey
CompletedOf(sid) ==
    Cardinality({i \in DOMAIN responses :
                    /\ responses[i].SurveyID = sid
                    /\ responses[i].Status = "completed"})

\* C31: once max_responses responses of a survey are completed, every
\* StartSurvey call on that survey fails and creates no response
C31_FullSurveyRefusesStart ==
    [][ \A p \in DOMAIN procs :
           ( /\ StartTaken(p)
             /\ CompletedOf(procs'[p].sid) >= surveys[procs'[p].sid].MaxResponses )
           => /\ procs'[p].pc = "done"
              /\ procs'[p].result # "ok" ]_vars

\* a PublishSurvey call has just been taken up by handler p
PublishTaken(p) ==
    /\ served' = served + 1
    /\ procs'[p] # procs[p]
    /\ procs'[p].op = "PublishSurvey"

\* handler p's PublishWithRewardPool transaction has just committed
Published(p) ==
    /\ procs[p].pc = "publish_save"
    /\ procs'[p].pc = "done"
    /\ procs'[p].result = "ok"

\* C32: a PublishSurvey call that finds the survey not draft or without
\* questions fails and writes nothing; the transaction of a successful call
\* sets the status to published and appends the survey's pool, with
\* remaining_amount = total_amount = the survey's total reward pool,
\* paid_out 0, current_responses 0 and active, in one step; a status turns
\* published and a pool appears in no other step, a published survey has a
\* pool, and no survey has two pools
C32_PublishCreatesOnePool ==
    [][ /\ \A p \in DOMAIN procs :
              ( /\ PublishTaken(p)
                /\ \/ surveys[procs'[p].sid].Status # "draft"
                   \/ Len(surveys[procs'[p].sid].Questions) = 0 )
              => /\ procs'[p].pc = "done"
                 /\ procs'[p].result # "ok"
                 /\ surveys' = surveys
                 /\ pools' = pools
        /\ \A p \in DOMAIN procs :
              Published(p)
              => LET sid  == procs[p].sid
                     pool == pools'[Len(pools')]
                 IN
                 /\ surveys'[sid].Status = "published"
                 /\ Len(pools') = Len(pools) + 1
                 /\ SubSeq(pools', 1, Len(pools)) = pools
                 /\ pool.SurveyID = sid
                 /\ pool.TotalAmount = surveys'[sid].TotalRewardPool
                 /\ pool.RemainingAmount = pool.TotalAmount
                 /\ pool.PaidOut = 0
                 /\ pool.CurrentResponses = 0
                 /\ pool.IsActive
        /\ \A s \in SurveyIds :
              (surveys'[s].Status = "published" /\ surveys[s].Status # "published")
              => \E p \in DOMAIN procs : Published(p) /\ procs[p].sid = s
        /\ Len(pools') # Len(pools) => \E p \in DOMAIN procs : Published(p)
        /\ \A s \in SurveyIds :
              /\ surveys'[s].Status = "published"
                    => \E i \in DOMAIN pools' : pools'[i].SurveyID = s
              /\ Cardinality({i \in DOMAIN pools' : pools'[i].SurveyID = s}) <= 1 ]_vars

\* of two PublishSurvey calls that both loaded the draft, one has published
\* the survey and created its pool, the other was rolled back
C32_Witness ==
    /\ \A s \in SurveyIds : Cardinality(GetPoolBySurveyID(s)) = 1
    /\ \E p, q \in DOMAIN procs :
          /\ procs[p].op = "PublishSurvey" /\ procs[p].pc = "done"
          /\ procs[p].result = "ok"
          /\ procs[q].op = "PublishSurvey" /\ procs[q].pc = "done"
          /\ procs[q].result = "duplicate key value violates unique constraint"

\* handler p's StartSurvey has just created its response and returned
Started(p) ==
    /\ procs[p].pc = "start_create"
    /\ procs'[p].pc = "done"
    /\ procs'[p].result = "ok"

\* C33: a successful StartSurvey appends exactly one response, started,
\* valid, of the caller and the requested survey, returns its id and
\* time_left = estimated_duration * 60 (none when the duration is 0), and
\* changes no other response, no answer, pool, transaction, balance or survey
C33_StartCreatesOneResponse ==
    [][ \A p \in DOMAIN procs :
           Started(p)
           => LET row == responses'[Len(responses')]
                  est == surveys[procs[p].sid].EstimatedDuration
              IN
              /\ Len(responses') = Len(responses) + 1
              /\ SubSeq(responses', 1, Len(responses)) = responses
              /\ row.Status = "started"
              /\ row.IsValid
              /\ ~row.CompletedAt
              /\ row.UserID = procs[p].user
              /\ row.SurveyID = procs[p].sid
              /\ procs'[p].rid = Len(responses')
              /\ procs'[p].timeLeft = IF est # 0 THEN est * 60 ELSE Nil
              /\ UNCHANGED <<surveys, answers, pools, transactions, users>> ]_vars

\* a StartSurvey has returned the second response of the survey with the
\* time left of a three-minute survey, next to an earlier response
C33_Witness ==
    \E p \in DOMAIN procs :
        /\ procs[p].op = "StartSurvey" /\ procs[p].pc = "done"
        /\ procs[p].result = "ok"
        /\ procs[p].rid = 2 /\ Len(responses) = 2
        /\ responses[2].Status = "started"
        /\ responses[2].UserID = procs[p].user
        /\ procs[p].timeLeft = 180

\* C34: on a survey with allow_multiple = false there is at most one
\* response per (user, survey) pair, whatever the interleaving of the
\* StartSurvey calls
C34_OneResponsePerUser ==
    \A i, j \in DOMAIN responses :
        ( /\ responses[i].UserID = responses[j].UserID
          /\ responses[i].SurveyID = responses[j].SurveyID
          /\ ~surveys[responses[i].SurveyID].AllowMultiple )
        => i = j

\* C35: of a CompleteSurvey and an AbandonSurvey call by the owner on the
\* same response at most one succeeds; the response is not abandoned with a
\* reward transaction, and not completed after the abandon succeeded
C35_CompleteOrAbandon ==
    \A p, q \in Procs :
        ( /\ FinishedOwnerCall(p, "CompleteSurvey")
          /\ FinishedOwnerCall(q, "AbandonSurvey")
          /\ procs[p].rid = procs[q].rid )
        => LET rid == procs[p].rid IN
           /\ ~(procs[p].result = "ok" /\ procs[q].result = "ok")
           /\ responses[rid].Status = "abandoned" => TransactionsOf(rid) = {}
           /\ procs[q].result = "ok" => responses[rid].Status # "completed"

RECURSIVE SumAmounts(_)
SumAmounts(ts) ==
    IF ts = {} THEN 0
    ELSE LET t == CHOOSE x \in ts : TRUE
         IN transactions[t].Amount + SumAmounts(ts \ {t})

\* C36: for every pool the amounts of the transactions that reference it
\* sum to at most its paid_out, and their number is its current_responses
C36_TransactionsMatchPool ==
    \A id \in DOMAIN pools :
        /\ SumAmounts(TransactionsOnPool(id)) <= pools[id].PaidOut
        /\ Cardinality(TransactionsOnPool(id)) = pools[id].CurrentResponses

\* handler p's AbandonSurvey has just saved the response and returned
Abandoned(p) ==
    /\ procs[p].pc = "abandon_update"
    /\ procs'[p].pc = "done"
    /\ procs'[p].result = "ok"

\* C37: the save of an AbandonSurvey on a response stored as started sets
\* that response's status to abandoned and its duration and changes nothing
\* else: no other field, no other response, no answer, pool, transaction or
\* balance; and no settlement is made for a response stored as abandoned
C37_AbandonChangesOnlyTheResponse ==
    [][ /\ \A p \in DOMAIN procs :
              (Abandoned(p) /\ responses[procs[p].rid].Status = "started")
              => LET rid == procs[p].rid IN
                 /\ responses' = [responses EXCEPT
                                     ![rid].Status = "abandoned",
                                     ![rid].Duration = responses'[rid].Duration]
                 /\ UNCHANGED <<answers, pools, transactions, users>>
        /\ \A p \in DOMAIN procs :
              Settled(p) => responses[procs[p].rid].Status # "abandoned" ]_vars

\* handler p has just taken a step of processRewards
SettlementAttempt(p) ==
    /\ procs[p].pc \in {"complete_pool", "complete_process"}
    /\ procs'[p] # procs[p]

\* the pool handler p is about to use: the one it loaded, or the survey's
PoolsOf(p) ==
    IF procs[p].pc = "complete_process" THEN {procs[p].pool}
    ELSE GetPoolBySurveyID(procs[p].response.SurveyID)

\* C38: a pool whose active flag is false keeps every field in every step,
\* so it never turns active again, and a settlement attempt against it fails
\* without recording a transaction or crediting a balance
C38_DeactivationIsPermanent ==
    [][ /\ \A id \in DOMAIN pools : ~pools[id].IsActive => pools'[id] = pools[id]
        /\ \A p \in DOMAIN procs :
              ( /\ SettlementAttempt(p)
                /\ \E id \in PoolsOf(p) : ~pools[id].IsActive )
              => /\ procs'[p].pc = "done"
                 /\ procs'[p].result \in
                       {"insufficient reward pool",
                        "cannot process reward: insufficient funds or pool inactive"}
                 /\ UNCHANGED <<pools, transactions, users>> ]_vars

\* a settlement was refused inside the repository's transaction, on a pool
\* that another settlement had deactivated after this handler's own check
C38_Witness ==
    /\ \E id \in DOMAIN pools :
          /\ ~pools[id].IsActive
          /\ pools[id].CurrentResponses = pools[id].MaxResponses
          /\ Cardinality(TransactionsOnPool(id)) = pools[id].MaxResponses
    /\ \E p \in DOMAIN procs :
          /\ procs[p].op = "CompleteSurvey" /\ procs[p].pc = "done"
          /\ procs[p].result = "cannot process reward: insufficient funds or pool inactive"

\* C39: a transaction can be retried only while it is failed with a retry
\* count below 3; every step that changes it either marks it completed and
\* keeps the count or marks it failed and raises the count by 1; from a
\* count of 3 on (three MarkAsFailed calls on a new transaction) it can
\* never be retried again; a completed transaction cannot be retried
C39_RetryLimit ==
    [][ \A t \in DOMAIN transactions :
           LET rt == transactions[t]
               next == transactions'[t]
           IN
           /\ CanRetry(rt) => (rt.Status = "failed" /\ rt.RetryCount < 3)
           /\ rt.Status = "completed" => ~CanRetry(rt)
           /\ next # rt
                 => \/ next.Status = "completed" /\ next.RetryCount = rt.RetryCount
                    \/ next.Status = "failed" /\ next.RetryCount = rt.RetryCount + 1
           /\ rt.RetryCount >= 3 => ~CanRetry(next)
           /\ next.Status = "completed" => ~CanRetry(next) ]_vars

\* one transaction has failed three times and cannot be retried, the other
\* has failed twice and can
C39_Witness ==
    \E t, u \in DOMAIN transactions :
        /\ transactions[t].Status = "failed"
        /\ transactions[t].RetryCount = 3
        /\ ~CanRetry(transactions[t])
        /\ transactions[u].Status = "failed"
        /\ transactions[u].RetryCount = 2
        /\ CanRetry(transactions[u])

\* C40: once UpdateBalance has been called, available_balance =
\* total_earned - total_withdrawn - pending_balance, and CanWithdraw(amount)
\* holds for no amount outside 0 < amount <= available_balance
C40_AvailableBalance ==
    balance.updates > 0
    => /\ balance.AvailableBalance
             = balance.TotalEarned - balance.TotalWithdrawn - balance.PendingBalance
       /\ \A amount \in WithdrawAmounts :
             CanWithdraw(balance, amount)
             => ( /\ 0 < amount
                  /\ amount <= balance.TotalEarned - balance.TotalWithdrawn
                                  - balance.PendingBalance )

\* a user with a pending amount of 50 has earned 200 and withdrawn 50: 100
\* can be withdrawn, 200 and 0 cannot
C40_Witness ==
    /\ balance.updates > 0
    /\ balance.PendingBalance = 50
    /\ balance.TotalEarned = 200
    /\ balance.TotalWithdrawn = 50
    /\ balance.AvailableBalance = 100
    /\ CanWithdraw(balance, 100)
    /\ ~CanWithdraw(balance, 200)
    /\ ~CanWithdraw(balance, 0)
====
